---------------------------- MODULE Spec2Model ----------------------------
(***************************************************************************)
(* A model of src/models/advanced_python_features.py: the cache_with_ttl   *)
(* decorator (a dict keyed by the string rendering of the call arguments,  *)
(* with an expiry test against time.time()) wrapped around a function      *)
(* func(a, b).                                                             *)
(***************************************************************************)
EXTENDS Integers, Sequences, FiniteSets, TLC

(***************************************************************************)
(* Bounds of the model.                                                    *)
(***************************************************************************)
\* the clock readings are 0..MaxTime
MaxTime == 2
\* the wrapped function takes 0..MaxRun clock units to return
MaxRun == 1
\* the largest ttl_seconds a cache is built with
MaxTtl == 2
\* the external state the wrapped function may read takes values 0..MaxWorld
MaxWorld == 2

(***************************************************************************)
(* Python values that are passed as arguments.  Every value is a record    *)
(* [t, n, items]: an int n; a dict whose items are listed in insertion     *)
(* order; an instance of a user class (default __repr__, default __eq__)   *)
(* at address n whose attributes are items.                                *)
(***************************************************************************)
PyInt(n) == [t |-> "int", n |-> n, items |-> <<>>]
PyDict(items) == [t |-> "dict", n |-> 0, items |-> items]
PyObj(addr, x) == [t |-> "obj", n |-> addr, items |-> <<<<"x", x>>>>]

\* str(int)
IntStr(n) == IF n < 0 THEN "-" \o ToString(-n) ELSE ToString(n)

\* ", ".join(parts)
RECURSIVE Join(_)
Join(parts) ==
    IF parts = <<>> THEN ""
    ELSE IF Len(parts) = 1 THEN parts[1]
    ELSE parts[1] \o ", " \o Join(Tail(parts))

\* repr(v): what str() of a tuple or list shows for its element v
Repr(v) ==
    CASE v.t = "int" -> IntStr(v.n)
      [] v.t = "dict" ->
            "{" \o Join([i \in 1..Len(v.items) |->
                    "'" \o v.items[i][1] \o "': " \o IntStr(v.items[i][2])]) \o "}"
      [] v.t = "obj" -> "<A object at 0x" \o IntStr(v.n) \o ">"

\* u == v in Python: dicts compare by their set of items whatever the
\* insertion order, instances of a plain class compare by identity
PyEq(u, v) ==
    IF u.t = "dict" /\ v.t = "dict"
    THEN {u.items[i] : i \in 1..Len(u.items)} = {v.items[i] : i \in 1..Len(v.items)}
    ELSE u = v

\* str(args) for the tuple args
StrTuple(args) ==
    IF Len(args) = 1 THEN "(" \o Repr(args[1]) \o ",)"
    ELSE "(" \o Join([i \in 1..Len(args) |-> Repr(args[i])]) \o ")"

\* str(items) for a list of (name, value) pairs
StrItems(items) ==
    "[" \o Join([i \in 1..Len(items) |->
            "('" \o items[i][1] \o "', " \o Repr(items[i][2]) \o ")"]) \o "]"

\* the code point Python compares parameter names by
Ord(name) == CASE name = "a" -> 97 [] name = "b" -> 98

RECURSIVE Insert(_, _)
Insert(item, sorted) ==
    IF sorted = <<>> THEN <<item>>
    ELSE IF Ord(item[1]) <= Ord(sorted[1][1]) THEN <<item>> \o sorted
    ELSE <<sorted[1]>> \o Insert(item, Tail(sorted))

\* sorted(kwargs.items()): keyword names are distinct, so the order is by name
RECURSIVE SortedItems(_)
SortedItems(kwargs) ==
    IF kwargs = <<>> THEN <<>>
    ELSE Insert(kwargs[1], SortedItems(Tail(kwargs)))

(***************************************************************************)
(* Calls.  A call is its positional arguments and its keyword arguments    *)
(* in the order they were written.                                         *)
(***************************************************************************)
MkCall(args, kwargs) == [args |-> args, kwargs |-> kwargs]

\* the parameters func(a, b) binds a call to (both required)
Bind(c) ==
    LET kw(name) == (CHOOSE i \in 1..Len(c.kwargs) : c.kwargs[i][1] = name)
    IN [a |-> IF Len(c.args) >= 1 THEN c.args[1] ELSE c.kwargs[kw("a")][2],
        b |-> IF Len(c.args) >= 2 THEN c.args[2] ELSE c.kwargs[kw("b")][2]]

\* the call func(a, b) written positionally and by keyword in both orders
Styles(a, b) ==
    { MkCall(<<a, b>>, <<>>),
      MkCall(<<>>, <<<<"a", a>>, <<"b", b>>>>),
      MkCall(<<>>, <<<<"b", b>>, <<"a", a>>>>) }

Four == PyInt(4)
MinusOne == PyInt(-1)
Zero == PyInt(0)
DictXY == PyDict(<<<<"x", 1>>, <<"y", 2>>>>)
DictYX == PyDict(<<<<"y", 2>>, <<"x", 1>>>>)
\* two instances that live one after the other at the same address
Obj1 == PyObj(1, 1)
Obj2 == PyObj(1, 2)

\* the calls of a run that exercises argument-passing styles, a failing input
\* and two arguments that render alike; every key they derive may be stored
Calls ==
    Styles(Four, Zero)
      \cup { MkCall(<<a, Zero>>, <<>>) : a \in {MinusOne, Obj1, Obj2} }

\* the calls of a run that passes dicts
DictCalls == { MkCall(<<a, Zero>>, <<>>) : a \in {Four, DictXY, DictYX} }

AllCalls == Calls \cup DictCalls

(***************************************************************************)
(* The wrapped function.  Its outcome is a return or a raise; what it      *)
(* computes may depend on external state (world), which only an impure     *)
(* function reads.                                                         *)
(***************************************************************************)
Outcome(kind, val) == [kind |-> kind, val |-> val]
NoVal == [a |-> Zero, b |-> Zero, w |-> 0]
NoOutcome == Outcome("none", NoVal)

\* func(*args, **kwargs): raises on the input -1 and while the world is odd
func(c, w) ==
    LET p == Bind(c)
        val == [a |-> p.a, b |-> p.b, w |-> w]
    IN IF p.a = MinusOne \/ w % 2 = 1 THEN Outcome("raise", val)
       ELSE Outcome("return", val)

VARIABLES
    ttl_seconds,  \* the decorator's parameter
    workload,     \* the calls this run may make
    impure,       \* whether the wrapped function reads external state
    world,        \* the external state
    now,          \* time.time()
    cache,        \* the decorator's dict, a set of [key, cached_time, cached_result]
    writer,       \* history: for each key of cache, the call that stored its entry
    event,        \* the step taken last
    last,         \* what the last call of the wrapper did
    caches,       \* two applications of the decorator: the dict of each
    lasts,        \* what the last call of each application's wrapper did
    called,       \* the application whose wrapper was called last
    pc,           \* where the timed unit of work is
    start_time,   \* the start_time of performance_monitor or of measure_time
    body,         \* how the with block or the timed function ended
    log,          \* the lines printed
    propagated,   \* what the caller of the unit of work got
    frames,       \* two threads in the wrapper: the position and locals of each
    stores,       \* history: the threads that assigned to the dict, in order
    instances,    \* SingletonMeta._instances, from class to object
    heap,         \* the config of each ConfigurationManager object made
    init_runs,    \* history: how many times ConfigurationManager.__init__ ran
    refs,         \* history: what each ConfigurationManager() gave, in order
    ctor,         \* threads in SingletonMeta.__call__: position and locals of each
    assigned,     \* history: the objects assigned to _instances[cls], in order
    written,      \* history: for each key, the last set_config call made on it
    got,          \* the last get_config call and what it returned
    demo_name,    \* PythonFeatureDemo: self._name
    lists,        \* the list objects: 1 is self._features, 2 a list handed out
    held,         \* the list object the caller of get_features holds (0: none)
    added,        \* history: the features given to add_feature
    assignment,   \* the value last assigned to name and what that raised
    response,     \* what /api/python-features answered last
    fault         \* the exception a step of the last request raised, if any

\* the decorator applied twice
twoVars == <<caches, lasts, called>>

\* performance_monitor and measure_time
timingVars == <<pc, start_time, body, log, propagated>>

\* threads calling the wrapper at the same time
threadVars == <<frames, stores>>

\* SingletonMeta and ConfigurationManager
singletonVars == <<instances, heap, init_runs, refs>>

\* threads in SingletonMeta.__call__ at the same time
raceVars == <<ctor, assigned>>

\* the calls of set_config and get_config
configVars == <<written, got>>

\* one PythonFeatureDemo object and its caller
demoVars == <<demo_name, lists, held, added, assignment>>

\* the handler of /api/python-features
apiVars == <<response, fault>>

\* the components described last
rest == <<raceVars, configVars, demoVars, apiVars>>

\* the state of everything but the wrapper of the one application above
others == <<twoVars, timingVars, threadVars, singletonVars, rest>>

vars == <<ttl_seconds, workload, impure, world, now, cache, writer, event, last,
          others>>

(***************************************************************************)
(* The dict.                                                               *)
(***************************************************************************)
Entry(key, cached_time, cached_result) ==
    [key |-> key, cached_time |-> cached_time, cached_result |-> cached_result]

Keys(d) == {e.key : e \in d}

\* key in cache
Contains(d, key) == key \in Keys(d)

\* cache[key]
Get(d, key) == CHOOSE e \in d : e.key = key

\* mutant of the assignment: the pair is added beside the one already there
SetItemAppend(d, key, current_time, result) ==
    d \cup {[key |-> key, cached_time |-> current_time, cached_result |-> result]}

\* cache[key] = (current_time, result)
SetItem(d, key, current_time, result) ==
    {e \in d : e.key # key} \cup {Entry(key, current_time, result)}

(***************************************************************************)
(* cache_with_ttl.wrapper                                                  *)
(***************************************************************************)
\* mutant of the key: the keyword arguments are rendered in the order written
KeyUnsorted(c) == StrTuple(c.args) \o StrItems(c.kwargs)

\* key = str(args) + str(sorted(kwargs.items()))
Key(c) == StrTuple(c.args) \o StrItems(SortedItems(c.kwargs))

\* Key, evaluated once for every call of the model
KeyOf == [c \in AllCalls |-> Key(c)]

\* mutants of the expiry test: an inclusive bound, and the comparison reversed
FreshInclusive(cached_time, current_time) == current_time - cached_time <= ttl_seconds
FreshInverted(cached_time, current_time) == current_time - cached_time >= ttl_seconds

\* current_time - cached_time < ttl_seconds
Fresh(cached_time, current_time) == current_time - cached_time < ttl_seconds

\* if key in cache: ... if current_time - cached_time < ttl_seconds
IsHit(d, key, current_time) ==
    Contains(d, key) /\ Fresh(Get(d, key).cached_time, current_time)

\* mutant of the hit branch: a hit restarts the entry's ttl
AfterHitTouch(d, key, current_time) ==
    SetItem(d, key, current_time, Get(d, key).cached_result)

\* the dict after the hit branch: return cached_result
AfterHit(d, key, current_time) == d

\* mutants of the miss branch: an entry already present is kept (setdefault),
\* and a failure is stored like a result
AfterMissKeep(d, key, current_time, end_time, result) ==
    IF result.kind = "raise" \/ Contains(d, key) THEN d
    ELSE SetItem(d, key, current_time, result.val)
AfterMissStoreFailure(d, key, current_time, end_time, result) ==
    SetItem(d, key, current_time, result.val)

\* mutant of the miss branch: a failure removes the entry of the key
AfterMissPurge(d, key, current_time, end_time, result) ==
    IF result.kind = "raise" THEN {e \in d : e.key # key}
    ELSE SetItem(d, key, current_time, result.val)

\* mutant of the miss branch: the entry is stamped with the clock reading at
\* the time it is stored
AfterMissStoreEnd(d, key, current_time, end_time, result) ==
    IF result.kind = "raise" THEN d
    ELSE SetItem(d, key, end_time, result.val)

\* the dict after the miss branch: result = func(...) raised, or returned and
\* cache[key] = (current_time, result)
AfterMiss(d, key, current_time, end_time, result) ==
    IF result.kind = "raise" THEN d
    ELSE SetItem(d, key, current_time, result.val)

\* what the lookup of the key met
Found(d, key, current_time) ==
    IF ~Contains(d, key) THEN "absent"
    ELSE IF Fresh(Get(d, key).cached_time, current_time) THEN "fresh"
    ELSE "expired"

Report(c, at, found, hit, invoked, out) ==
    [call |-> c, at |-> at, found |-> found, hit |-> hit,
     invoked |-> invoked, out |-> out]

\* a call of the wrapper whose wrapped function, when invoked, runs for d
wrapper(c, d) ==
    LET key == KeyOf[c]
        current_time == now
    IN /\ event' = "call"
       /\ UNCHANGED <<ttl_seconds, workload, impure, world, others>>
       /\ IF IsHit(cache, key, current_time)
          THEN /\ last' = Report(c, current_time, Found(cache, key, current_time),
                             TRUE, 0,
                             Outcome("return", Get(cache, key).cached_result))
               /\ cache' = AfterHit(cache, key, current_time)
               /\ UNCHANGED <<now, writer>>
          ELSE LET result == func(c, world)
               IN /\ now + d <= MaxTime
                  /\ now' = now + d
                  /\ last' = Report(c, current_time, Found(cache, key, current_time),
                                FALSE, 1, result)
                  /\ cache' = AfterMiss(cache, key, current_time, now + d, result)
                  /\ writer' = IF result.kind = "raise" /\ cache' = cache THEN writer
                               ELSE [k \in Keys(cache') |->
                                       IF k = key \/ k \notin DOMAIN writer
                                       THEN c ELSE writer[k]]

\* time passes between calls
Tick ==
    /\ now < MaxTime
    /\ now' = now + 1
    /\ event' = "tick"
    /\ UNCHANGED <<ttl_seconds, workload, impure, world, cache, writer, last>>
    /\ UNCHANGED others

\* the external state an impure function reads changes
Mutate ==
    /\ impure
    /\ world < MaxWorld
    /\ world' = world + 1
    /\ event' = "mutate"
    /\ UNCHANGED <<ttl_seconds, workload, impure, now, cache, writer, last>>
    /\ UNCHANGED others

\* the applications of the decorator: decorator(func) runs once for each
Applications == {1, 2}

\* nothing was called yet
NoReport == Report(MkCall(<<Four, Zero>>, <<>>), 0, "absent", FALSE, 0, NoOutcome)

\* decorator(func), cache = {}: each application starts with a dict of its own
TwoInit ==
    /\ caches = [w \in Applications |-> {}]
    /\ lasts = [w \in Applications |-> NoReport]
    /\ called = 0

\* no unit of work was started
TimingInit ==
    /\ pc = "idle"
    /\ start_time = 0
    /\ body = NoOutcome
    /\ log = <<>>
    /\ propagated = NoOutcome

\* the threads that serve requests
Threads == {1, 2}

\* the locals of a call of the wrapper and the statement it is at
Frame(at, c, current_time, result, hit) ==
    [pc |-> at, call |-> c, current_time |-> current_time, result |-> result,
     hit |-> hit]

\* no thread is in the wrapper
ThreadInit ==
    /\ frames = [t \in Threads |->
                   Frame("idle", MkCall(<<Four, Zero>>, <<>>), 0, NoOutcome, FALSE)]
    /\ stores = <<>>

\* _instances = {}, and no object made
SingletonInit ==
    /\ instances = <<>>
    /\ heap = <<>>
    /\ init_runs = 0
    /\ refs = <<>>

\* the threads that evaluate ConfigurationManager()
Callers == {1, 2, 3}

\* the statement of __call__ a thread is at, the object it made and what it
\* returned (0: none)
CtorFrame(at, made, returned) == [pc |-> at, made |-> made, returned |-> returned]

\* no thread is in __call__
RaceInit ==
    /\ ctor = [t \in Callers |-> CtorFrame("idle", 0, 0)]
    /\ assigned = <<>>

\* a call of get_config on object self and the value it returned
Got(self, key, default, value) ==
    [self |-> self, key |-> key, default |-> default, value |-> value]

\* no call of set_config or get_config was made
ConfigInit ==
    /\ written = <<>>
    /\ got = Got(0, "", "", "")

\* a value given as a name: its type and, for a str or bytes, its characters
NameValue(type, chars) == [t |-> type, chars |-> chars]

\* the names given to PythonFeatureDemo(name), which checks nothing
FirstNames == {NameValue("str", <<"P", "y">>), NameValue("str", <<"a">>)}

\* PythonFeatureDemo("Py"): _name = name, _features = [], (_score = 0)
DemoInit ==
    /\ demo_name = NameValue("str", <<"P", "y">>)
    /\ lists = <<<<>>>>
    /\ held = 0
    /\ added = {}
    /\ assignment = [value |-> NameValue("str", <<"P", "y">>), raised |-> ""]

\* a response: the status and the success and error fields of its JSON
Response(status, success, error) ==
    [status |-> status, success |-> success, error |-> error]

\* no request was served
ApiInit ==
    /\ response = Response(0, FALSE, "")
    /\ fault = NoOutcome

\* cache_with_ttl(ttl_seconds) and decorator(func) hold no statement that
\* looks at ttl_seconds: whatever it is, the wrapper is built
ConstructionRaises(ttl) == FALSE

InitWith(ttls, calls) ==
    /\ ttl_seconds \in ttls
    /\ workload = calls
    /\ impure \in BOOLEAN
    /\ world = 0
    /\ now = 0
    /\ cache = {}
    /\ writer = <<>>
    /\ event = IF ConstructionRaises(ttl_seconds) THEN "error" ELSE "init"
    /\ last = NoReport
    /\ TwoInit
    /\ TimingInit
    /\ ThreadInit
    /\ SingletonInit
    /\ RaceInit
    /\ ConfigInit
    /\ DemoInit
    /\ ApiInit

Init == InitWith(1..MaxTtl, Calls)

Call ==
    /\ ~ConstructionRaises(ttl_seconds)
    /\ \E c \in workload, d \in 0..MaxRun : wrapper(c, d)

Next == Call \/ Tick \/ Mutate

Spec == Init /\ [][Next]_vars

\* the same program called with dict arguments
DictInit == InitWith(1..MaxTtl, DictCalls)

DictSpec == DictInit /\ [][Next]_vars

\* the same program with a cache built with a ttl_seconds that is not positive
NonPositiveTtls == {-1, 0}

NeverInit == InitWith(NonPositiveTtls, Calls)

NeverSpec == NeverInit /\ [][Next]_vars

(***************************************************************************)
(* cache_with_ttl applied to two functions.                                *)
(***************************************************************************)
\* the second wrapped function: another computation of the same arguments
func2(c, w) ==
    LET p == Bind(c)
    IN Outcome("return", [a |-> p.b, b |-> p.a, w |-> w])

\* the function application w wraps
FuncOf(w, c, x) == IF w = 1 THEN func(c, x) ELSE func2(c, x)

\* mutant of the closure: one dict serves every application
CacheShared(w) == 1

\* the dict the wrapper of application w closes over: the cache = {} that
\* its own run of decorator(func) made
CacheOf(w) == w

\* a call of the wrapper of application w
decorated(w, c, d) ==
    LET key == KeyOf[c]
        current_time == now
        store == caches[CacheOf(w)]
    IN /\ event' = "call"
       /\ called' = w
       /\ UNCHANGED <<ttl_seconds, workload, impure, world, cache, writer, last>>
       /\ UNCHANGED <<timingVars, threadVars, singletonVars, rest>>
       /\ IF IsHit(store, key, current_time)
          THEN /\ lasts' = [lasts EXCEPT ![w] =
                              Report(c, current_time, Found(store, key, current_time),
                                     TRUE, 0,
                                     Outcome("return", Get(store, key).cached_result))]
               /\ caches' = [caches EXCEPT ![CacheOf(w)] =
                               AfterHit(store, key, current_time)]
               /\ UNCHANGED now
          ELSE LET result == FuncOf(w, c, world)
               IN /\ now + d <= MaxTime
                  /\ now' = now + d
                  /\ lasts' = [lasts EXCEPT ![w] =
                                 Report(c, current_time,
                                        Found(store, key, current_time),
                                        FALSE, 1, result)]
                  /\ caches' = [caches EXCEPT ![CacheOf(w)] =
                                  AfterMiss(store, key, current_time, now + d, result)]

TwoCalls == {MkCall(<<Four, Zero>>, <<>>), MkCall(<<MinusOne, Zero>>, <<>>)}

TwoCall == \E w \in Applications, c \in workload, d \in 0..MaxRun : decorated(w, c, d)

TwoNext == TwoCall \/ Tick

TwoSpecInit ==
    /\ InitWith(1..MaxTtl, TwoCalls)
    /\ ~impure

TwoSpec == TwoSpecInit /\ [][TwoNext]_vars

(***************************************************************************)
(* performance_monitor and measure_time.                                   *)
(***************************************************************************)
\* an exception: its class and str(e)
Exc(cls, msg) == [cls |-> cls, msg |-> msg]

\* the classes of the exceptions raised here, each with the classes it
\* derives from
Mro ==
    [ValueError |-> {"ValueError", "Exception", "BaseException"},
     KeyboardInterrupt |-> {"KeyboardInterrupt", "BaseException"}]

\* isinstance(e, cls)
IsInstance(e, cls) == cls \in Mro[e.cls]

\* how a with block or a function can end
Endings ==
    {Outcome("return", NoVal),
     Outcome("raise", Exc("ValueError", "boom")),
     Outcome("raise", Exc("KeyboardInterrupt", ""))}

StartLine == [line |-> "start", text |-> ""]
ErrorLine(e) == [line |-> "error", text |-> e.msg]
DurationLine(duration) == [line |-> "duration", text |-> IntStr(duration)]
ElapsedLine(execution_time) == [line |-> "elapsed", text |-> IntStr(execution_time)]

\* mutant of the handler: a bare except
CatchesAll(e) == TRUE

\* except Exception as e
Catches(e) == IsInstance(e, "Exception")

\* performance_monitor up to its yield: the with statement is entered
MonitorEnter ==
    /\ pc = "idle"
    /\ log' = Append(log, StartLine)
    /\ start_time' = now
    /\ pc' = "yield"
    /\ UNCHANGED <<body, propagated>>
    /\ UNCHANGED <<ttl_seconds, workload, impure, world, now, cache, writer,
                   event, last, twoVars, threadVars, singletonVars, rest>>

\* the with block runs for d and returns or raises
WithBlock ==
    /\ pc = "yield"
    /\ \E o \in Endings, d \in 0..MaxRun :
          /\ now + d <= MaxTime
          /\ now' = now + d
          /\ body' = o
    /\ pc' = "block ended"
    /\ UNCHANGED <<start_time, log, propagated>>
    /\ UNCHANGED <<ttl_seconds, workload, impure, world, cache, writer,
                   event, last, twoVars, threadVars, singletonVars, rest>>

\* the lines performance_monitor prints from its yield on, the with block
\* having ended as o at end_time
ExitLines(o, end_time) ==
    (IF o.kind = "raise" /\ Catches(o.val) THEN <<ErrorLine(o.val)>> ELSE <<>>)
       \o <<DurationLine(end_time - start_time)>>

\* performance_monitor from its yield on: the except clause when the block
\* raised, which raises the exception again, and the finally clause
MonitorExit ==
    /\ pc = "block ended"
    /\ log' = log \o ExitLines(body, now)
    /\ propagated' = body
    /\ pc' = "exited"
    /\ UNCHANGED <<start_time, body>>
    /\ UNCHANGED <<ttl_seconds, workload, impure, world, now, cache, writer,
                   event, last, twoVars, threadVars, singletonVars, rest>>

\* mutant of measure_time: the line is printed in a finally clause
ReportLinesAlways(o, execution_time) == <<ElapsedLine(execution_time)>>

\* the lines the wrapper of measure_time prints, func having ended as o
ReportLines(o, execution_time) ==
    IF o.kind = "return" THEN <<ElapsedLine(execution_time)>> ELSE <<>>

\* a call of the wrapper of measure_time, whose func runs for d
measure_time ==
    /\ pc = "idle"
    /\ \E o \in Endings, d \in 0..MaxRun :
          /\ now + d <= MaxTime
          /\ start_time' = now
          /\ now' = now + d
          /\ body' = o
          /\ log' = log \o ReportLines(o, (now + d) - now)
          /\ propagated' = o
    /\ pc' = "timed"
    /\ UNCHANGED <<ttl_seconds, workload, impure, world, cache, writer,
                   event, last, twoVars, threadVars, singletonVars, rest>>

\* the caller goes on to its next unit of work
NextUnit ==
    /\ pc \in {"exited", "timed"}
    /\ pc' = "idle"
    /\ start_time' = 0
    /\ body' = NoOutcome
    /\ log' = <<>>
    /\ propagated' = NoOutcome
    /\ UNCHANGED <<ttl_seconds, workload, impure, world, now, cache, writer,
                   event, last, twoVars, threadVars, singletonVars, rest>>

TimingNext == MonitorEnter \/ WithBlock \/ MonitorExit \/ measure_time \/ NextUnit \/ Tick

TimingSpecInit ==
    /\ InitWith({1}, {})
    /\ ~impure

TimingSpec == TimingSpecInit /\ [][TimingNext]_vars

(***************************************************************************)
(* Two threads in the wrapper of one application.  A thread runs one       *)
(* statement of the wrapper at a time; a test of the dict, a read of it    *)
(* and an assignment to it are each one step of the interpreter.  Entries  *)
(* are replaced and never removed, so the test of line 51 and the read of  *)
(* line 52 are taken as one step.                                          *)
(***************************************************************************)
\* the thread enters the wrapper: the key and current_time = time.time()
ThreadCall(t) ==
    /\ frames[t].pc = "idle"
    /\ \E c \in workload :
          frames' = [frames EXCEPT ![t] = Frame("lookup", c, now, NoOutcome, FALSE)]
    /\ UNCHANGED <<ttl_seconds, workload, impure, world, now, cache, writer,
                   event, last, twoVars, timingVars, stores, singletonVars,
                   rest>>

\* if key in cache ... if current_time - cached_time < ttl_seconds: return
ThreadLookup(t) ==
    LET f == frames[t]
        key == KeyOf[f.call]
    IN /\ f.pc = "lookup"
       /\ frames' = [frames EXCEPT ![t] =
                       IF IsHit(cache, key, f.current_time)
                       THEN Frame("returned", f.call, f.current_time,
                                  Outcome("return", Get(cache, key).cached_result),
                                  TRUE)
                       ELSE Frame("func", f.call, f.current_time, f.result, FALSE)]
       /\ UNCHANGED <<ttl_seconds, workload, impure, world, now, cache, writer,
                      event, last, twoVars, timingVars, stores, singletonVars,
                      rest>>

\* result = func(*args, **kwargs)
ThreadFunc(t) ==
    LET f == frames[t]
        result == func(f.call, world)
    IN /\ f.pc = "func"
       /\ frames' = [frames EXCEPT ![t] =
                       Frame(IF result.kind = "raise" THEN "returned" ELSE "store",
                             f.call, f.current_time, result, FALSE)]
       /\ UNCHANGED <<ttl_seconds, workload, impure, world, now, cache, writer,
                      event, last, twoVars, timingVars, stores, singletonVars,
                      rest>>

\* cache[key] = (current_time, result), and return result
ThreadStore(t) ==
    LET f == frames[t]
    IN /\ f.pc = "store"
       /\ cache' = SetItem(cache, KeyOf[f.call], f.current_time, f.result.val)
       /\ stores' = Append(stores, t)
       /\ frames' = [frames EXCEPT ![t] =
                       Frame("returned", f.call, f.current_time, f.result, FALSE)]
       /\ UNCHANGED <<ttl_seconds, workload, impure, world, now, writer,
                      event, last, twoVars, timingVars, singletonVars, rest>>

ThreadNext ==
    \/ \E t \in Threads : ThreadCall(t)
    \/ \E t \in Threads : ThreadLookup(t)
    \/ \E t \in Threads : ThreadFunc(t)
    \/ \E t \in Threads : ThreadStore(t)
    \/ Tick
    \/ Mutate

ThreadSpecInit == InitWith(1..MaxTtl, TwoCalls)

ThreadSpec == ThreadSpecInit /\ [][ThreadNext]_vars

(***************************************************************************)
(* SingletonMeta and ConfigurationManager, used by one thread.             *)
(***************************************************************************)
MaxRefs == 3

ConfigurationManager == "ConfigurationManager"

\* the config that __init__ sets
Defaults ==
    [app_name |-> "Python & JavaScript Presentation",
     version |-> "1.0.0",
     debug |-> "True",
     features |-> "['decorators', 'context_managers', 'metaclasses']"]

\* the keys and values given to set_config
SetKeys == {"version", "debug", "theme"}
SetValues == {"2.0.0", "False"}

\* mutant of the test: type.__call__ runs for every ConfigurationManager()
AlwaysNew(insts, cls) == TRUE

\* if cls not in cls._instances
NeedsInstance(insts, cls) == cls \notin DOMAIN insts

\* SingletonMeta.__call__(cls): a ConfigurationManager() expression.  When
\* the class has no instance, super().__call__ makes an object and runs
\* __init__ on it
SingletonMetaCall ==
    LET cls == ConfigurationManager
        fresh == Len(refs) + 1
        made == NeedsInstance(instances, cls)
        insts == IF made THEN [c \in DOMAIN instances \cup {cls} |->
                                IF c = cls THEN fresh ELSE instances[c]]
                 ELSE instances
    IN /\ Len(refs) < MaxRefs
       /\ instances' = insts
       /\ heap' = IF made THEN [o \in DOMAIN heap \cup {fresh} |->
                                 IF o = fresh THEN Defaults ELSE heap[o]]
                  ELSE heap
       /\ init_runs' = IF made THEN init_runs + 1 ELSE init_runs
       /\ refs' = Append(refs, insts[cls])
       /\ event' = "construct"
       /\ UNCHANGED <<ttl_seconds, workload, impure, world, now, cache, writer,
                      last, twoVars, timingVars, threadVars, rest>>

\* self.config[key] = value
SetConfigItem(config, key, value) ==
    [k \in DOMAIN config \cup {key} |-> IF k = key THEN value ELSE config[k]]

\* set_config(key, value) on the object a ConfigurationManager() gave
set_config(self, key, value) ==
    /\ heap' = [heap EXCEPT ![self] = SetConfigItem(heap[self], key, value)]
    /\ event' = "set_config"
    /\ UNCHANGED <<instances, init_runs, refs>>
    /\ UNCHANGED <<ttl_seconds, workload, impure, world, now, cache, writer,
                   last, twoVars, timingVars, threadVars, raceVars,
                   demoVars, apiVars>>

SetConfig ==
    /\ \E i \in DOMAIN refs, key \in SetKeys, value \in SetValues :
          set_config(refs[i], key, value)
    /\ UNCHANGED configVars

SingletonNext == SingletonMetaCall \/ SetConfig

SingletonSpecInit ==
    /\ InitWith({1}, {})
    /\ ~impure

SingletonSpec == SingletonSpecInit /\ [][SingletonNext]_vars

(***************************************************************************)
(* SingletonMeta.__call__ run by several threads.  The test of line 143,   *)
(* the construction and the assignment of line 144 and the read of line    *)
(* 145 are separate steps: __call__ takes no lock, and __init__ is code    *)
(* the interpreter can leave for another thread.                           *)
(***************************************************************************)
\* if cls not in cls._instances
CallTest(t) ==
    /\ ctor[t].pc = "idle"
    /\ ctor' = [ctor EXCEPT ![t] =
                  CtorFrame(IF NeedsInstance(instances, ConfigurationManager)
                            THEN "make" ELSE "return", 0, 0)]
    /\ UNCHANGED <<assigned, singletonVars>>
    /\ UNCHANGED <<ttl_seconds, workload, impure, world, now, cache, writer,
                   event, last, twoVars, timingVars, threadVars,
                   configVars, demoVars, apiVars>>

\* super().__call__(*args, **kwargs): a new object, and __init__ on it
CallMake(t) ==
    LET fresh == Cardinality(DOMAIN heap) + 1
    IN /\ ctor[t].pc = "make"
       /\ heap' = [o \in DOMAIN heap \cup {fresh} |->
                     IF o = fresh THEN Defaults ELSE heap[o]]
       /\ init_runs' = init_runs + 1
       /\ ctor' = [ctor EXCEPT ![t] = CtorFrame("assign", fresh, 0)]
       /\ UNCHANGED <<assigned, instances, refs>>
       /\ UNCHANGED <<ttl_seconds, workload, impure, world, now, cache, writer,
                      event, last, twoVars, timingVars, threadVars,
                   configVars, demoVars, apiVars>>

\* cls._instances[cls] = the object made
CallAssign(t) ==
    LET cls == ConfigurationManager
    IN /\ ctor[t].pc = "assign"
       /\ instances' = [c \in DOMAIN instances \cup {cls} |->
                          IF c = cls THEN ctor[t].made ELSE instances[c]]
       /\ assigned' = Append(assigned, ctor[t].made)
       /\ ctor' = [ctor EXCEPT ![t] = CtorFrame("return", ctor[t].made, 0)]
       /\ UNCHANGED <<heap, init_runs, refs>>
       /\ UNCHANGED <<ttl_seconds, workload, impure, world, now, cache, writer,
                      event, last, twoVars, timingVars, threadVars,
                   configVars, demoVars, apiVars>>

\* mutant of the return: the thread returns the object it made, if any
ReturnedOwn(insts, cls, made) == IF made # 0 THEN made ELSE insts[cls]

\* return cls._instances[cls]
Returned(insts, cls, made) == insts[cls]

CallReturn(t) ==
    LET obj == Returned(instances, ConfigurationManager, ctor[t].made)
    IN /\ ctor[t].pc = "return"
       /\ ctor' = [ctor EXCEPT ![t] = CtorFrame("returned", ctor[t].made, obj)]
       /\ refs' = Append(refs, obj)
       /\ UNCHANGED <<assigned, instances, heap, init_runs>>
       /\ UNCHANGED <<ttl_seconds, workload, impure, world, now, cache, writer,
                      event, last, twoVars, timingVars, threadVars,
                   configVars, demoVars, apiVars>>

RaceNext ==
    \/ \E t \in Callers : CallTest(t)
    \/ \E t \in Callers : CallMake(t)
    \/ \E t \in Callers : CallAssign(t)
    \/ \E t \in Callers : CallReturn(t)

RaceSpecInit ==
    /\ InitWith({1}, {})
    /\ ~impure

RaceSpec == RaceSpecInit /\ [][RaceNext]_vars

(***************************************************************************)
(* get_config and set_config on the objects that ConfigurationManager()    *)
(* gave, however they were obtained.                                       *)
(***************************************************************************)
\* the threads that evaluate ConfigurationManager() here
Racers == {1, 2}

\* the keys given to get_config and set_config, and the defaults
ConfigKeys == {"version", "theme"}
GetDefaults == {"None", "light"}

\* mutant of get_config: a key that is absent is given its default
DictGetSetDefault(config, key, default) ==
    IF key \in DOMAIN config THEN config ELSE SetConfigItem(config, key, default)

\* the config after self.config.get(key, default)
DictGetLeaves(config, key, default) == config

\* self.config.get(key, default)
DictGet(config, key, default) ==
    IF key \in DOMAIN config THEN config[key] ELSE default

\* get_config(key, default) on the object a ConfigurationManager() gave
get_config(self, key, default) ==
    /\ got' = Got(self, key, default, DictGet(heap[self], key, default))
    /\ heap' = [heap EXCEPT ![self] = DictGetLeaves(heap[self], key, default)]
    /\ event' = "get_config"
    /\ UNCHANGED <<written, instances, init_runs, refs>>
    /\ UNCHANGED <<ttl_seconds, workload, impure, world, now, cache, writer,
                   last, twoVars, timingVars, threadVars, raceVars,
                   demoVars, apiVars>>

GetConfig ==
    \E i \in DOMAIN refs, key \in ConfigKeys, default \in GetDefaults :
       get_config(refs[i], key, default)

\* a call of set_config, kept in the history
RecordedSetConfig ==
    /\ \E i \in DOMAIN refs, key \in ConfigKeys, value \in SetValues :
          /\ set_config(refs[i], key, value)
          /\ written' = [k \in DOMAIN written \cup {key} |->
                           IF k = key THEN [self |-> refs[i], value |-> value]
                           ELSE written[k]]
    /\ UNCHANGED got

ConfigNext ==
    \/ \E t \in Racers : CallTest(t)
    \/ \E t \in Racers : CallMake(t)
    \/ \E t \in Racers : CallAssign(t)
    \/ \E t \in Racers : CallReturn(t)
    \/ RecordedSetConfig
    \/ GetConfig

ConfigSpecInit ==
    /\ InitWith({1}, {})
    /\ ~impure

ConfigSpec == ConfigSpecInit /\ [][ConfigNext]_vars

(***************************************************************************)
(* PythonFeatureDemo: one object, and a caller that keeps the list that    *)
(* get_features gave it and changes that list.                             *)
(***************************************************************************)
MaxList == 4

\* the features given to add_feature
Features == {"decorators", "generators", "metaclasses"}

\* the values assigned to name
Names ==
    {NameValue("str", <<>>), NameValue("str", <<"a">>),
     NameValue("str", <<"P", "y">>), NameValue("str", <<"D", "e", "m", "o">>),
     NameValue("bytes", <<"P", "y">>), NameValue("int", <<>>),
     NameValue("NoneType", <<>>)}

\* self._features
StoredFeatures == lists[1]

\* feature in self._features
InList(l, feature) == \E i \in DOMAIN l : l[i] = feature

\* score: len(self._features) * 10
score == Len(StoredFeatures) * 10

\* PythonFeatureDemo(name): a new object takes the place of the old one
DemoNew ==
    /\ \E first \in FirstNames : demo_name' = first
    /\ lists' = [lists EXCEPT ![1] = <<>>]
    /\ added' = {}
    /\ UNCHANGED assignment
    /\ event' = "__init__"
    /\ UNCHANGED held
    /\ UNCHANGED <<ttl_seconds, workload, impure, world, now, cache, writer,
                   last, twoVars, timingVars, threadVars, singletonVars,
                   raceVars, configVars, apiVars>>

\* mutant of add_feature: the feature is appended whether present or not
AppendAlways(l, feature) == Append(l, feature)

\* if feature not in self._features: self._features.append(feature)
AppendNew(l, feature) == IF InList(l, feature) THEN l ELSE Append(l, feature)

add_feature(feature) ==
    /\ lists' = [lists EXCEPT ![1] = AppendNew(lists[1], feature)]
    /\ added' = added \cup {feature}
    /\ event' = "add_feature"
    /\ UNCHANGED <<demo_name, held, assignment>>
    /\ UNCHANGED <<ttl_seconds, workload, impure, world, now, cache, writer,
                   last, twoVars, timingVars, threadVars, singletonVars,
                   raceVars, configVars, apiVars>>

AddFeature == \E feature \in Features : add_feature(feature)

\* mutant of get_features: the list itself is returned
ReturnsSelf(ls) == [object |-> 1, heap |-> ls]

\* return self._features.copy(): a new list object with the same elements
ReturnsCopy(ls) ==
    [object |-> 2,
     heap |-> [o \in {1, 2} |-> ls[1]]]

get_features ==
    /\ held' = ReturnsCopy(lists).object
    /\ lists' = ReturnsCopy(lists).heap
    /\ event' = "get_features"
    /\ UNCHANGED <<demo_name, added, assignment>>
    /\ UNCHANGED <<ttl_seconds, workload, impure, world, now, cache, writer,
                   last, twoVars, timingVars, threadVars, singletonVars,
                   raceVars, configVars, apiVars>>

\* the caller changes the list it was given: append, or clear
CallerChangesList ==
    /\ held # 0
    /\ \/ /\ Len(lists[held]) < MaxList
          /\ lists' = [lists EXCEPT ![held] = Append(lists[held], "extra")]
       \/ lists' = [lists EXCEPT ![held] = <<>>]
    /\ event' = "caller"
    /\ UNCHANGED <<demo_name, held, added, assignment>>
    /\ UNCHANGED <<ttl_seconds, workload, impure, world, now, cache, writer,
                   last, twoVars, timingVars, threadVars, singletonVars,
                   raceVars, configVars, apiVars>>

\* mutant of the validation: any str is accepted
RejectsNonStr(value) == value.t # "str"

\* not isinstance(value, str) or len(value) < 2
Rejects(value) == value.t # "str" \/ Len(value.chars) < 2

\* the setter of name
SetName(value) ==
    /\ IF Rejects(value)
       THEN /\ assignment' = [value |-> value, raised |-> "ValueError"]
            /\ UNCHANGED demo_name
       ELSE /\ assignment' = [value |-> value, raised |-> ""]
            /\ demo_name' = value
    /\ event' = "name"
    /\ UNCHANGED <<lists, held, added>>
    /\ UNCHANGED <<ttl_seconds, workload, impure, world, now, cache, writer,
                   last, twoVars, timingVars, threadVars, singletonVars,
                   raceVars, configVars, apiVars>>

AssignName == \E value \in Names : SetName(value)

DemoNext ==
    DemoNew \/ AddFeature \/ get_features \/ CallerChangesList \/ AssignName

DemoSpecInit ==
    /\ InitWith({1}, {})
    /\ ~impure

DemoSpec == DemoSpecInit /\ [][DemoNext]_vars

(***************************************************************************)
(* The handler of /api/python-features, serving one request at a time.     *)
(***************************************************************************)
AnalysisTtl == 60

MaxClock == 121

\* sample_data
SampleData == <<1, 2, 3, 4, 5, 10, 15, 20>>

\* functools.reduce(lambda a, b: a + b, numbers, 0)
RECURSIVE Sum(_)
Sum(numbers) == IF numbers = <<>> THEN 0 ELSE Head(numbers) + Sum(Tail(numbers))

\* the body of functional_data_analysis; avg is kept as total_sum over count
functional_data_analysis(numbers) ==
    LET total_sum == Sum(numbers)
        elems == {numbers[i] : i \in DOMAIN numbers}
    IN [original |-> numbers,
        even_numbers |-> SelectSeq(numbers, LAMBDA x : x % 2 = 0),
        squared_numbers |-> [i \in DOMAIN numbers |-> numbers[i] * numbers[i]],
        total_sum |-> total_sum,
        positive_squares |-> [i \in DOMAIN SelectSeq(numbers, LAMBDA x : x > 0) |->
                                SelectSeq(numbers, LAMBDA x : x > 0)[i]
                                   * SelectSeq(numbers, LAMBDA x : x > 0)[i]],
        count |-> Len(numbers),
        max |-> IF numbers = <<>> THEN 0
                ELSE CHOOSE m \in elems : \A x \in elems : x <= m,
        min |-> IF numbers = <<>> THEN 0
                ELSE CHOOSE m \in elems : \A x \in elems : m <= x,
        avg |-> IF numbers = <<>> THEN <<0, 1>> ELSE <<total_sum, Len(numbers)>>]

\* str(args) + str(sorted(kwargs.items())) for the call with one list
ListKey(numbers) ==
    "([" \o Join([i \in DOMAIN numbers |-> IntStr(numbers[i])]) \o "],)"
       \o StrItems(<<>>)

\* the call functional_data_analysis(sample_data), its key and what the body
\* returns for it, each evaluated once
SampleCall == [args |-> <<SampleData>>, kwargs |-> <<>>]
SampleKey == ListKey(SampleData)
SampleAnalysis == functional_data_analysis(SampleData)

\* the steps after the analysis that can raise, and what they raise
FaultySteps == {"process", "jsonify"}
Faults ==
    {NoOutcome} \cup {Outcome("raise", Exc("ValueError", step)) : step \in FaultySteps}

\* the response of the handler when its body raised f, or nothing
Respond(f) ==
    IF f.kind = "raise" /\ IsInstance(f.val, "Exception")
    THEN Response(500, FALSE, f.val.msg)
    ELSE Response(200, TRUE, "")

\* one request: the analysis through measure_time and the cache, then the
\* other steps, one of which may raise f; the analysis, when run, takes d
api_python_features(f, d) ==
    LET key == SampleKey
        current_time == now
        hit == IsHit(cache, key, current_time)
        result == IF hit THEN Outcome("return", Get(cache, key).cached_result)
                  ELSE Outcome("return", SampleAnalysis)
        end_time == IF hit THEN now ELSE now + d
    IN /\ end_time <= MaxClock
       /\ now' = end_time
       /\ cache' = IF hit THEN AfterHit(cache, key, current_time)
                   ELSE AfterMiss(cache, key, current_time, end_time, result)
       /\ last' = Report(SampleCall, current_time,
                         Found(cache, key, current_time), hit,
                         IF hit THEN 0 ELSE 1, result)
       /\ log' = ReportLines(result, end_time - current_time)
       /\ fault' = f
       /\ response' = Respond(f)
       /\ event' = "request"
       /\ UNCHANGED <<pc, start_time, body, propagated>>
       /\ UNCHANGED <<ttl_seconds, workload, impure, world, writer, twoVars,
                      threadVars, singletonVars, raceVars, configVars, demoVars>>

Request == \E f \in Faults, d \in 0..MaxRun : api_python_features(f, d)

\* time passes between requests
Gaps == {59, 60}

Wait ==
    /\ \E gap \in Gaps :
          /\ now + gap <= MaxClock
          /\ now' = now + gap
    /\ event' = "wait"
    /\ UNCHANGED <<ttl_seconds, workload, impure, world, cache, writer, last,
                   others>>

ApiNext == Request \/ Wait

ApiSpecInit ==
    /\ InitWith({AnalysisTtl}, {})
    /\ ~impure

ApiSpec == ApiSpecInit /\ [][ApiNext]_vars

(***************************************************************************)
(* The claims.  A step of the wrapper is a step with event' = "call": the  *)
(* call is last'.call, made at clock reading now against the store cache.  *)
(***************************************************************************)
\* the entries of store d under key k (the claims do not assume there is one)
Stored(d, k) == {e \in d : e.key = k}

\* now - stored_at < ttl, for entry e at clock reading t
Valid(e, t) == t - e.cached_time < ttl_seconds

\* C1: a call that is a hit (key present and now - stored_at < ttl) invokes the
\* wrapped function zero times, a call that is a miss (key absent or entry
\* expired) invokes it exactly once
C1_HitNeverCallsMissCallsOnce ==
    [][event' = "call" =>
        LET k == KeyOf[last'.call]
            hit == \E e \in Stored(cache, k) : Valid(e, now)
        IN /\ hit => last'.invoked = 0
           /\ ~hit => last'.invoked = 1]_vars

\* a hit that invoked nothing
C1_Witness ==
    /\ event = "call" /\ last.hit /\ last.invoked = 0
    /\ \E e \in Stored(cache, KeyOf[last.call]) : Valid(e, last.at)

\* C2: a miss stores the result it returns, and a call made while the entry of
\* its key is valid returns that stored result without invoking the function
C2_SecondCallWithinTtlServesStored ==
    [][event' = "call" =>
        LET k == KeyOf[last'.call]
        IN /\ \A e \in Stored(cache, k) :
                Valid(e, now) =>
                    /\ last'.invoked = 0
                    /\ last'.out = Outcome("return", e.cached_result)
           /\ (last'.invoked = 1 /\ last'.out.kind = "return") =>
                \E e \in Stored(cache', k) : e.cached_result = last'.out.val]_vars

\* a later call served the stored result although the function would now
\* return another one
C2_Witness ==
    /\ event = "call" /\ last.hit /\ last.invoked = 0
    /\ \E e \in Stored(cache, KeyOf[last.call]) :
          /\ e.cached_time < last.at
          /\ last.out.val = e.cached_result
          /\ func(last.call, world) # last.out

\* C3: a call made when ttl or more has elapsed since the entry of its key was
\* stored invokes the function exactly once and has the outcome of that
\* invocation; when it returns, the key's entry becomes (call time, fresh value)
C3_ExpiredEntryIsRecomputed ==
    [][event' = "call" =>
        LET k == KeyOf[last'.call]
        IN \A e \in Stored(cache, k) :
              ~Valid(e, now) =>
                  /\ last'.invoked = 1
                  /\ last'.out = func(last'.call, world)
                  /\ last'.out.kind = "return" =>
                        Stored(cache', k) = {Entry(k, now, last'.out.val)}]_vars

\* an expired entry was replaced by a value that differs from the stale one
C3_Witness ==
    /\ event = "call" /\ last.found = "expired" /\ last.out.kind = "return"
    /\ last.out.val.w = 2
    /\ Stored(cache, KeyOf[last.call]) =
          {Entry(KeyOf[last.call], last.at, last.out.val)}

\* C4: when the function fails on a miss, the wrapper has invoked it once, the
\* failure is the wrapper's outcome and the store is unchanged; the call with
\* the same key that follows at once is again a miss that invokes it once
C4_FailureIsNotCached ==
    [][event' = "call" =>
        /\ last'.out.kind = "raise" =>
              /\ last'.invoked = 1
              /\ last'.out = func(last'.call, world)
              /\ cache' = cache
        /\ (event = "call" /\ last.out.kind = "raise"
              /\ KeyOf[last'.call] = KeyOf[last.call]) =>
              (~last'.hit /\ last'.invoked = 1)]_vars

\* the function failed where an expired entry was stored, and the entry is
\* still there
C4_Witness ==
    /\ event = "call" /\ last.out.kind = "raise" /\ last.found = "expired"
    /\ \E e \in Stored(cache, KeyOf[last.call]) : ~Valid(e, last.at)


\* C5: with a deterministic wrapped function, every call of the wrapper has
\* the outcome the function has for that call's arguments
C5_WrapperEquivalentToFunc ==
    [][(event' = "call" /\ ~impure) =>
          last'.out = func(last'.call, world)]_vars

\* the items of keyword arguments, as the dict they are passed in
ItemSet(kwargs) == {kwargs[i] : i \in 1..Len(kwargs)}

\* the same positional values and the same keyword arguments, in any order
SameUpToKeywordOrder(c1, c2) ==
    c1.args = c2.args /\ ItemSet(c1.kwargs) = ItemSet(c2.kwargs)

\* C6: a call whose positional values and keyword arguments are those of the
\* call that stored a still valid entry, the keyword arguments in whatever
\* order, derives that entry's key and is a hit served that entry
C6_KeywordOrderSameKey ==
    [][event' = "call" =>
        \A e \in cache :
           (SameUpToKeywordOrder(writer[e.key], last'.call) /\ Valid(e, now)) =>
               /\ KeyOf[last'.call] = e.key
               /\ last'.hit /\ last'.invoked = 0
               /\ last'.out = Outcome("return", e.cached_result)]_vars

\* a hit on an entry that a call with the other keyword order stored
C6_Witness ==
    /\ event = "call" /\ last.hit
    /\ KeyOf[last.call] \in DOMAIN writer
    /\ writer[KeyOf[last.call]].kwargs # last.call.kwargs
    /\ SameUpToKeywordOrder(writer[KeyOf[last.call]], last.call)

\* C7: a call that binds the parameters to the values of the call that stored
\* a still valid entry, whatever is passed positionally and whatever by
\* keyword, derives that entry's key and is a hit
C7_PassingStyleSameKey ==
    [][event' = "call" =>
        \A e \in cache :
           (Bind(writer[e.key]) = Bind(last'.call) /\ Valid(e, now)) =>
               /\ KeyOf[last'.call] = e.key
               /\ last'.hit /\ last'.invoked = 0]_vars

\* args == args and kwargs == kwargs, as Python compares a tuple and a dict
ArgsEqual(c1, c2) ==
    /\ Len(c1.args) = Len(c2.args)
    /\ \A i \in 1..Len(c1.args) : PyEq(c1.args[i], c2.args[i])
    /\ {p[1] : p \in ItemSet(c1.kwargs)} = {p[1] : p \in ItemSet(c2.kwargs)}
    /\ \A p \in ItemSet(c1.kwargs), q \in ItemSet(c2.kwargs) :
          p[1] = q[1] => PyEq(p[2], q[2])

\* C8: a call whose arguments equal those of the call that stored an entry
\* derives that entry's key; and a call that derives the key of a still valid
\* entry, also one stored for other arguments, is served that entry's result
\* without invoking the function
C8_EqualArgumentsEqualKeys ==
    [][event' = "call" =>
        \A e \in cache :
           /\ ArgsEqual(writer[e.key], last'.call) => KeyOf[last'.call] = e.key
           /\ (KeyOf[last'.call] = e.key /\ Valid(e, now)) =>
                 /\ last'.invoked = 0
                 /\ last'.out = Outcome("return", e.cached_result)]_vars

\* no key has two entries
Unique(d) == \A e1, e2 \in d : e1.key = e2.key => e1 = e2

\* C9: the store never holds two pairs for one key; a step that changes the
\* store is a call that leaves one pair for its key and every pair of every
\* other key as it was
C9_OnePairPerKey ==
    [][/\ Unique(cache')
       /\ cache' # cache =>
            /\ event' = "call"
            /\ Cardinality(Stored(cache', KeyOf[last'.call])) = 1
            /\ \A e \in cache \cup cache' :
                  e.key # KeyOf[last'.call] => (e \in cache <=> e \in cache')]_vars

\* an expired pair was replaced while another key's pair was stored
C9_Witness ==
    /\ event = "call" /\ last.found = "expired" /\ last.out.kind = "return"
    /\ Stored(cache, KeyOf[last.call]) =
          {Entry(KeyOf[last.call], last.at, last.out.val)}
    /\ \E e \in cache : e.key # KeyOf[last.call]

\* C10: no step removes a key from the store, and an entry stays as it is
\* until a call with its key, made when it has expired, returns and
\* overwrites it
C10_EntriesAreNeverRemoved ==
    [][/\ Keys(cache) \subseteq Keys(cache')
       /\ \A e \in cache :
             e \notin cache' =>
                /\ event' = "call" /\ KeyOf[last'.call] = e.key
                /\ ~Valid(e, now)
                /\ last'.out.kind = "return"]_vars

\* an expired entry is still stored after a call with its key failed and
\* after time went on
C10_Witness ==
    /\ event = "tick" /\ last.out.kind = "raise" /\ last.found = "expired"
    /\ \E e \in Stored(cache, KeyOf[last.call]) : ~Valid(e, last.at)

\* C11: a cache whose ttl is zero or negative does not come to exist: its
\* construction fails, and no call of the wrapped function is made through it
C11_NonPositiveTtlIsRejected ==
    ttl_seconds <= 0 => (event = "error" /\ last.invoked = 0)

\* C12: each application of the decorator starts with an empty store of its
\* own: the first call of a wrapper is a miss that invokes its function once,
\* also when the other wrapper holds a valid entry under the same key; a call
\* of one wrapper leaves the other's store as it is, and a hit serves an entry
\* of the wrapper's own store
C12_StorePerApplication ==
    /\ [](called = 0 => \A w \in Applications : caches[w] = {})
    /\ [][event' = "call" =>
          LET w == called'
              k == KeyOf[lasts'[w].call]
          IN /\ \A o \in Applications \ {w} : caches'[o] = caches[o]
             /\ lasts[w].out.kind = "none" =>
                   (~lasts'[w].hit /\ lasts'[w].invoked = 1)
             /\ lasts'[w].out.kind = "return" =>
                   /\ lasts'[w].hit =>
                         \E e \in Stored(caches[w], k) :
                            lasts'[w].out.val = e.cached_result
                   /\ ~lasts'[w].hit =>
                         lasts'[w].out = FuncOf(w, lasts'[w].call, world)]_vars

\* the first call of the second wrapper missed while the first wrapper held a
\* valid entry under the same key, and each store now holds its own result
C12_Witness ==
    /\ event = "call" /\ called = 2
    /\ lasts[2].found = "absent" /\ lasts[2].invoked = 1
    /\ \E e \in Stored(caches[1], KeyOf[lasts[2].call]) :
          /\ Valid(e, lasts[2].at)
          /\ \E x \in Stored(caches[2], e.key) : x.cached_result # e.cached_result

\* the places of the lines of kind l in the log
Lines(l) == {i \in DOMAIN log : log[i].line = l}

\* C13 as stated: once the with statement is left, the duration was reported
\* exactly once and what the block raised is what the caller gets; whenever
\* the block raised, an error line was printed before the duration
C13_ErrorLineOnEveryFailure ==
    pc = "exited" =>
       /\ Cardinality(Lines("duration")) = 1
       /\ propagated = body
       /\ body.kind = "raise" =>
             \E i \in Lines("error"), j \in Lines("duration") : i < j

\* C13, amended: when the with statement is left, the duration (the clock at
\* exit less the clock at entry) is reported exactly once, as the last line,
\* and what the block raised is what the caller gets; when the block raised
\* an instance of Exception, one error line with its message comes before
\* the duration; when it returned or raised anything else, no error line
C13_DurationOnceErrorLineForException ==
    [][(pc = "block ended" /\ pc' = "exited") =>
          LET printed == SubSeq(log', Len(log) + 1, Len(log'))
              kinds == [i \in DOMAIN printed |-> printed[i].line]
              failed == body.kind = "raise" /\ IsInstance(body.val, "Exception")
          IN /\ propagated' = body
             /\ printed[Len(printed)] = DurationLine(now' - start_time)
             /\ failed => /\ kinds = <<"error", "duration">>
                          /\ printed[1] = ErrorLine(body.val)
             /\ ~failed => kinds = <<"duration">>]_vars

\* a block that ran for a while raised a ValueError: start, error, duration
C13_Witness ==
    /\ pc = "exited" /\ body.kind = "raise" /\ body.val.cls = "ValueError"
    /\ propagated = body
    /\ [i \in DOMAIN log |-> log[i].line] = <<"start", "error", "duration">>
    /\ log[3].text # IntStr(0)

\* C20: a call of the wrapper of measure_time gives the caller what func
\* returned or raised; the elapsed time is reported, once, if func returned,
\* and nothing is printed if it raised
C20_ReportOnlyOnReturn ==
    [][(pc = "idle" /\ pc' = "timed") =>
          /\ propagated' = body'
          /\ body'.kind = "return" =>
                log' = log \o <<ElapsedLine(now' - now)>>
          /\ body'.kind = "raise" => log' = log]_vars

\* func ran for a while and raised: the exception is out, nothing is printed
C20_Witness ==
    /\ pc = "timed" /\ body.kind = "raise" /\ propagated = body
    /\ now > start_time /\ log = <<>>

\* the threads that stored under key k, in the order they stored
Writers(k) == SelectSeq(stores, LAMBDA t : KeyOf[frames[t].call] = k)

\* C14: with two threads in the wrapper, the store holds at most one entry
\* for a key at any time, and for a key some thread stored under, the entry
\* is the one of the thread that stored last: its current_time and its result
C14_LastWriterWins ==
    \A c \in workload :
       LET k == KeyOf[c]
           ws == Writers(k)
       IN /\ Cardinality(Stored(cache, k)) <= 1
          /\ ws = <<>> => Stored(cache, k) = {}
          /\ ws # <<>> =>
                LET f == frames[ws[Len(ws)]]
                IN Stored(cache, k) = {Entry(k, f.current_time, f.result.val)}

\* both threads missed on the same key and invoked the function, which gave
\* them different results; both stored, and the entry is the second writer's
C14_Witness ==
    /\ \A t \in Threads : frames[t].pc = "returned" /\ ~frames[t].hit
    /\ KeyOf[frames[1].call] = KeyOf[frames[2].call]
    /\ Len(stores) = 2
    /\ frames[1].result # frames[2].result
    /\ frames[stores[2]].current_time < frames[stores[1]].current_time
    /\ Stored(cache, KeyOf[frames[1].call]) =
          {Entry(KeyOf[frames[1].call], frames[stores[2]].current_time,
                 frames[stores[2]].result.val)}

\* C15: used by one thread, every ConfigurationManager() gives the same
\* object and __init__ ran once, for the first of them; a later
\* ConfigurationManager() makes no object and leaves every config as it is
C15_OneInstanceInitOnce ==
    /\ [](/\ \A i, j \in DOMAIN refs : refs[i] = refs[j]
          /\ init_runs = IF refs = <<>> THEN 0 ELSE 1)
    /\ [][(event' = "construct" /\ refs # <<>>) =>
             /\ refs'[Len(refs')] = refs[1]
             /\ heap' = heap
             /\ init_runs' = init_runs]_vars

\* a ConfigurationManager() evaluated after set_config changed the config
\* gave the first object, its config still changed
C15_Witness ==
    /\ event = "construct" /\ Len(refs) >= 2
    /\ refs[Len(refs)] = refs[1]
    /\ heap[refs[1]] # Defaults
    /\ init_runs = 1

\* C21: with threads in __call__ at the same time, __init__ runs once for
\* each thread that passed the test, every object made is assigned at most
\* once, and what a ConfigurationManager() returns is the object assigned
\* last before its return; once no thread is past the test, that is the
\* object every later ConfigurationManager() gives
C21_LastAssignedIsServed ==
    /\ [](/\ init_runs = Cardinality({t \in Callers : ctor[t].made # 0})
          /\ assigned # <<>> =>
                instances[ConfigurationManager] = assigned[Len(assigned)])
    /\ [][\A t \in Callers :
            (ctor[t].pc = "return" /\ ctor'[t].pc = "returned") =>
               ctor'[t].returned = assigned[Len(assigned)]]_vars

\* two threads passed the test before any instance existed: __init__ ran
\* twice and they got different objects; a third thread that came later made
\* nothing and got the object assigned last
C21_Witness ==
    /\ \A t \in Callers : ctor[t].pc = "returned"
    /\ init_runs = 2 /\ Len(assigned) = 2
    /\ \E t, u, v \in Callers :
          /\ ctor[t].made # 0 /\ ctor[u].made # 0 /\ ctor[v].made = 0
          /\ ctor[t].returned # ctor[u].returned
          /\ ctor[v].returned = assigned[2]
          /\ ctor[v].returned = instances[ConfigurationManager]

\* what set_config leaves alone: for some key k, no other key of any object
\* changes, and no object changes but the one the call was made on
SetsOneKey ==
    \E k \in ConfigKeys :
       /\ k \in DOMAIN written'
       /\ \A o \in DOMAIN heap :
             /\ \A j \in DOMAIN heap'[o] \ {k} :
                   j \in DOMAIN heap[o] /\ heap'[o][j] = heap[o][j]
             /\ DOMAIN heap[o] \subseteq DOMAIN heap'[o]
             /\ o # written'[k].self => heap'[o] = heap[o]
       /\ heap'[written'[k].self][k] = written'[k].value

\* what get_config does for a key that is absent: the default, and no change
GetsDefaultWhenAbsent ==
    /\ got'.key \notin DOMAIN heap[got'.self] => got'.value = got'.default
    /\ heap' = heap

NoDuplicates(l) == \A i, j \in DOMAIN l : l[i] = l[j] => i = j

\* C23: the stored features hold each feature added once, score is 10 times
\* the number of distinct features added, add_feature of a feature present
\* changes nothing and of a new one puts it last, and a change of the list
\* that get_features returned changes neither the stored features nor score
C23_FeaturesDistinctInOrder ==
    /\ [](/\ NoDuplicates(StoredFeatures)
          /\ {StoredFeatures[i] : i \in DOMAIN StoredFeatures} = added
          /\ score = 10 * Cardinality(added))
    /\ [][/\ event' = "add_feature" =>
               \/ /\ added' = added
                  /\ lists'[1] = lists[1]
               \/ \E f \in added' \ added : lists'[1] = Append(lists[1], f)
          /\ event' = "get_features" =>
               /\ lists'[held'] = lists[1]
               /\ lists'[1] = lists[1]
          /\ event' = "caller" =>
               /\ lists'[1] = lists[1]
               /\ score' = score]_vars

\* the caller emptied the list it was given; the object still holds its two
\* features, in the order they were added
C23_Witness ==
    /\ event = "caller" /\ held # 0 /\ lists[held] = <<>>
    /\ StoredFeatures = <<"generators", "decorators">>
    /\ score = 20

\* C24: an assignment to name of a value that is not a str, or of a str
\* shorter than 2, raises ValueError and leaves the name as it was; any other
\* assignment raises nothing and makes the value the name; neither changes
\* the features or the score
C24_NameSetterValidates ==
    [][event' = "name" =>
         LET v == assignment'.value
             short == v.t = "str" /\ Len(v.chars) < 2
         IN /\ lists' = lists /\ score' = score
            /\ (v.t # "str" \/ short) =>
                  /\ assignment'.raised = "ValueError"
                  /\ demo_name' = demo_name
            /\ ~(v.t # "str" \/ short) =>
                  /\ assignment'.raised = ""
                  /\ demo_name' = v]_vars

\* a one-character name was refused: the object keeps the name assigned
\* before, and its features
C24_Witness ==
    /\ event = "name" /\ assignment.raised = "ValueError"
    /\ assignment.value = NameValue("str", <<"a">>)
    /\ demo_name = NameValue("str", <<"D", "e", "m", "o">>)
    /\ Len(StoredFeatures) = 2

\* C25: every request is answered: with status 500, success false and the
\* error text when a step raised an Exception, with success true otherwise;
\* the analysis runs on the first request and, after that, exactly on the
\* requests made 60 seconds or more after the entry was stored; measure_time
\* reports once on every request
C25_HandlerAnswersAndCaches ==
    [][event' = "request" =>
         /\ fault'.kind = "raise" =>
               response' = Response(500, FALSE, fault'.val.msg)
         /\ fault'.kind # "raise" => response'.success /\ response'.status = 200
         /\ cache = {} => last'.invoked = 1
         /\ \A e \in cache :
               /\ now - e.cached_time >= 60 => last'.invoked = 1
               /\ now - e.cached_time < 60 => last'.invoked = 0
         /\ last'.out.val = SampleAnalysis
         /\ Cardinality({i \in DOMAIN log' : log'[i].line = "elapsed"}) = 1]_vars

\* a request made exactly 60 seconds after the entry was stored ran the
\* analysis again; a later step raised and the answer was the 500
C25_Witness ==
    /\ event = "request"
    /\ last.found = "expired" /\ last.at = 60 /\ last.invoked = 1
    /\ response = Response(500, FALSE, "jsonify")
    /\ \E e \in cache : e.cached_time = 60 /\ e.cached_result.total_sum = 60

\* C16: a call made when now - stored_at equals ttl is a miss that invokes the
\* function and, when it returns, restamps the entry; a call is a hit only
\* if now - stored_at < ttl
C16_ExpiryTestIsStrict ==
    [][event' = "call" =>
        LET k == KeyOf[last'.call]
        IN /\ \A e \in Stored(cache, k) :
                now - e.cached_time = ttl_seconds =>
                   /\ ~last'.hit /\ last'.invoked = 1
                   /\ last'.out.kind = "return" =>
                         \A x \in Stored(cache', k) : x.cached_time = now
           /\ last'.hit =>
                \E e \in Stored(cache, k) : now - e.cached_time < ttl_seconds]_vars

\* an entry was recomputed at exactly stored_at + ttl: the clock starts at 0,
\* so an entry met expired at ttl was stored at 0
C16_Witness ==
    /\ event = "call" /\ ~last.hit /\ last.found = "expired"
    /\ last.at = ttl_seconds
    /\ last.out.kind = "return"
    /\ \E e \in Stored(cache, KeyOf[last.call]) : e.cached_time = last.at

\* C17: a cache built with a ttl of zero or less is built without error, and
\* with a clock that never goes back every call of it is a miss that invokes
\* the function once; what it returns is stored all the same
C17_NonPositiveTtlNeverServes ==
    /\ [](ttl_seconds <= 0 => (event # "error" /\ ENABLED Call))
    /\ [][(event' = "call" /\ ttl_seconds <= 0) =>
            /\ ~last'.hit /\ last'.invoked = 1
            /\ last'.out = func(last'.call, world)
            /\ last'.out.kind = "return" =>
                  Stored(cache', KeyOf[last'.call]) =
                     {Entry(KeyOf[last'.call], now, last'.out.val)}]_vars

\* with ttl 0 a call at the clock reading of the stored entry missed
C17_Witness ==
    /\ ttl_seconds <= 0 /\ event = "call" /\ last.found = "expired"
    /\ last.invoked = 1 /\ last.out.kind = "return"
    /\ \E e \in Stored(cache, KeyOf[last.call]) : e.cached_time = last.at

\* C18: the entry a miss writes is stamped with the clock reading at the start
\* of the call; when the function ran for ttl or longer, the entry is expired
\* as soon as it is written and the call with its key that follows is a miss
C18_StoredAtIsCallStart ==
    [][event' = "call" =>
        /\ (~last'.hit /\ last'.out.kind = "return") =>
              /\ \A e \in Stored(cache', KeyOf[last'.call]) : e.cached_time = now
              /\ now' - now >= ttl_seconds =>
                    \A e \in Stored(cache', KeyOf[last'.call]) : ~Valid(e, now')
        /\ (event = "call" /\ ~last.hit /\ last.out.kind = "return"
              /\ now - last.at >= ttl_seconds
              /\ KeyOf[last'.call] = KeyOf[last.call]) =>
              (~last'.hit /\ last'.invoked = 1)]_vars

\* the function ran for ttl, and the call with the same key that followed
\* met the entry expired
C18_Witness ==
    /\ event = "call" /\ ~last.hit /\ last.found = "expired"
    /\ \E e \in cache :
          /\ e.key = KeyOf[last.call]
          /\ e.cached_time = last.at
          /\ now > last.at

\* C19: a hit leaves the store as it is, the entry's stored_at included, and
\* is only ever served before stored_at + ttl
C19_HitDoesNotRefresh ==
    [][(event' = "call" /\ last'.hit) =>
          /\ cache' = cache
          /\ \A e \in Stored(cache', KeyOf[last'.call]) :
                now < e.cached_time + ttl_seconds]_vars

\* a hit later than the entry was stored left its stored_at alone
C19_Witness ==
    /\ event = "call" /\ last.hit
    /\ \E e \in Stored(cache, KeyOf[last.call]) : e.cached_time < last.at

=============================================================================
